---- MODULE Spec2Model ----
(***************************************************************************)
(* Model of the two scripts of zephyr-ide:                                 *)
(*   examples/api-client.py               ZephyrIdeClient and main()       *)
(*   resources/get_board_list_pre_v3_6_0.py   get_boards()                 *)
(* Python strings that the code takes apart (URLs, endpoints, board names, *)
(* regular expressions) are sequences of one-character strings; strings    *)
(* that are only compared are TLA+ strings.                                *)
(***************************************************************************)
EXTENDS Integers, Sequences, FiniteSets, TLC

VARIABLES
    \* ---- ZephyrIdeClient ----
    arg_base_url,     \* the base_url argument given to __init__
    base_url,         \* self.base_url
    arg_api_key,      \* the api_key argument given to __init__
    api_key,          \* self.api_key
    headers,          \* self.headers
    json_exc_is_request_exc, \* installed requests: is response.json()'s error a RequestException
    call,             \* the client call in progress: its name and arguments
    network,          \* what the network did with the request of that call
    wire,             \* the requests.get / requests.post calls made by the last client call
    ret,              \* how the last client call ended: returned pair or raised exception
    \* ---- main() of api-client.py ----
    pc,               \* position of main()
    status_response,  \* main()'s (status_response, status_code) of step 1
    projects_response,\* main()'s projects_response and the status code of step 2
    config_response,  \* main()'s config_response and the status code of step 3
    build_response,   \* main()'s build_response and the status code of step 4
    reported,         \* what main() printed for each step: "none", "ok" or "failed"
    requested,        \* the requests main() has made so far, in order
    \* ---- get_boards() ----
    lpc,              \* position of get_boards()
    args_name_re,     \* args.name_re: <<>> for None, <<pattern>> when -n was given
    args_format,      \* args.format
    boards,           \* what list_boards.find_boards would return
    name_re,          \* local name_re: <<>> for None, <<pattern>> when compiled
    found,            \* the list find_boards returned
    idx,              \* position of the for loop in found
    out,              \* the lines given to log.inf so far
    find_calls        \* how many times find_boards has been invoked

configVars == <<arg_base_url, base_url, arg_api_key, api_key, headers,
                json_exc_is_request_exc>>
clientVars == <<configVars, call, network, wire, ret>>
mainVars   == <<pc, status_response, projects_response, config_response,
                build_response, reported, requested>>
listerVars == <<lpc, args_name_re, args_format, boards, name_re, found, idx,
                out, find_calls>>
vars == <<clientVars, mainVars, listerVars>>

-----------------------------------------------------------------------------
(* Bounds *)
MaxBaseLen     == 3   \* longest base URL tried
MaxEndpointLen == 3   \* longest endpoint tried
MaxPatLen      == 2   \* longest filter pattern tried
MaxBoards      == 2   \* longest board list tried

-----------------------------------------------------------------------------
(* Python values *)
None == "<None>"

\* Python truthiness of an optional string: None and "" are false.
Truthy(v) == v /= None /\ v /= ""

\* All sequences over S of length at most n.
SeqsUpTo(S, n) == UNION {[1..k -> S] : k \in 0..n}

\* str.rstrip('/')
RECURSIVE Rstrip(_)
Rstrip(s) ==
    IF s /= <<>> /\ s[Len(s)] = "/" THEN Rstrip(SubSeq(s, 1, Len(s) - 1)) ELSE s

\* str.lstrip('/')
RECURSIVE Lstrip(_)
Lstrip(s) ==
    IF s /= <<>> /\ Head(s) = "/" THEN Lstrip(Tail(s)) ELSE s

\* str.upper() on the method names tried
Upper(m) ==
    CASE m = "get"    -> "GET"
      [] m = "Post"   -> "POST"
      [] m = "post"   -> "POST"
      [] m = "put"    -> "PUT"
      [] m = "delete" -> "DELETE"
      [] OTHER        -> m

ApiPrefix == <<"/", "a", "p", "i", "/">>

\* ComposeUrl as it would be if the endpoint were joined on as given
ComposeUrl_NoStrip(base, endpoint) == base \o ApiPrefix \o endpoint

\* url = f"{self.base_url}/api/{endpoint.lstrip('/')}"
ComposeUrl(base, endpoint) == base \o ApiPrefix \o Lstrip(endpoint)

\* __init__: self.base_url = base_url.rstrip('/')
InitBaseUrl(b) == Rstrip(b)

\* InitHeaders as it would be if the key were never added
InitHeaders_NoKey(key) == ("Content-Type" :> "application/json")

\* __init__: self.headers, with X-API-Key added if api_key is truthy
InitHeaders(key) ==
    IF Truthy(key)
    THEN ("Content-Type" :> "application/json") @@ ("X-API-Key" :> key)
    ELSE ("Content-Type" :> "application/json")

-----------------------------------------------------------------------------
(* The network and the server, seen from requests.get / requests.post *)
Statuses == {200, 401, 500}
DataShapes == {"missing", "empty", "full"}
\* a JSON object body: its "success" member and the shape of its "data" member;
\* a response is either such a body or a body that is not JSON
Payloads == [success : BOOLEAN, data : DataShapes]
NetOutcomes ==
    {[kind |-> "transport_failure"]}
    \cup [kind : {"response_not_json"}, status : Statuses]
    \cup [kind : {"response_json"}, status : Statuses, payload : Payloads]

\* IsRequestException as it would be for a bare "except Exception"
IsRequestException_Any(exc) == TRUE

\* except requests.RequestException: which exceptions the clause catches
IsRequestException(exc) ==
    \/ exc = "ConnectionError"
    \/ exc = "JSONDecodeError" /\ json_exc_is_request_exc

\* requests.get / requests.post followed by response.json(), response.status_code
Exchange(req, net) ==
    IF net.kind = "transport_failure"
    THEN [wire |-> <<req>>, end |-> [kind |-> "raise", exc |-> "ConnectionError"]]
    ELSE IF net.kind = "response_not_json"
    THEN [wire |-> <<req>>, end |-> [kind |-> "raise", exc |-> "JSONDecodeError"]]
    ELSE [wire |-> <<req>>,
          end  |-> [kind |-> "return", payload |-> net.payload, status |-> net.status]]

\* the body of the try block of _request
TryBody(method, url, data, net) ==
    IF Upper(method) = "GET"
    THEN Exchange([verb |-> "GET", url |-> url, headers |-> headers, body |-> <<>>], net)
    ELSE IF Upper(method) = "POST"
    THEN Exchange([verb |-> "POST", url |-> url, headers |-> headers, body |-> <<data>>], net)
    ELSE [wire |-> <<>>, end |-> [kind |-> "raise", exc |-> "ValueError"]]

\* Except as it would be if the clause re-raised
Except_Reraise(end) == end

\* the except clause of _request
Except(end) ==
    IF end.kind = "raise" /\ IsRequestException(end.exc)
    THEN [kind |-> "return",
          payload |-> [success |-> FALSE, error |-> <<"Connection error: ", end.exc>>],
          status |-> 0]
    ELSE end

\* ZephyrIdeClient._request
Request(method, endpoint, data, net) ==
    LET t == TryBody(method, ComposeUrl(base_url, endpoint), data, net)
    IN  [wire |-> t.wire, end |-> Except(t.end)]

-----------------------------------------------------------------------------
(* Request bodies *)
EmptyDict == <<>>

\* BuildData as it would be if the optional arguments were always stored
BuildData_Nulls(project_name, build_name, pristine) ==
    ("buildName" :> build_name) @@ ("projectName" :> project_name)
    @@ ("pristine" :> pristine)

\* build_project: the data dictionary
BuildData(project_name, build_name, pristine) ==
    (IF Truthy(build_name) THEN ("buildName" :> build_name) ELSE EmptyDict)
    @@ (IF Truthy(project_name) THEN ("projectName" :> project_name) ELSE EmptyDict)
    @@ ("pristine" :> pristine)

\* flash_project: the data dictionary
FlashData(project_name, build_name) ==
    (IF Truthy(build_name) THEN ("buildName" :> build_name) ELSE EmptyDict)
    @@ (IF Truthy(project_name) THEN ("projectName" :> project_name) ELSE EmptyDict)

EpStatus   == <<"/", "s", "t", "a", "t", "u", "s">>
EpProjects == <<"/", "p", "r", "o", "j", "e", "c", "t", "s">>
EpConfig   == <<"/", "w", "o", "r", "k", "s", "p", "a", "c", "e", "/", "c", "o", "n", "f", "i", "g">>
EpBuild    == <<"/", "b", "u", "i", "l", "d">>
EpFlash    == <<"/", "f", "l", "a", "s", "h">>

-----------------------------------------------------------------------------
(* Inputs tried *)
UrlChars      == {"/", "h"}
EndpointChars == {"/", "s"}
BaseUrls      == SeqsUpTo(UrlChars, MaxBaseLen)
Endpoints     == SeqsUpTo(EndpointChars, MaxEndpointLen)
Methods       == {"GET", "POST", "get", "Post", "PUT", "delete", ""}
ApiKeys       == {None, "", "k"}
OptNames      == {None, "", "foo", "debug"}

NoCall == [op |-> "none"]
NoRet  == [kind |-> "none"]
NoNet  == [kind |-> "none"]

MainIdle ==
    /\ pc = "idle"
    /\ status_response = NoRet
    /\ projects_response = NoRet
    /\ config_response = NoRet
    /\ build_response = NoRet
    /\ reported = [s \in {"status", "projects", "config", "build"} |-> "none"]
    /\ requested = <<>>

ListerIdle ==
    /\ lpc = "idle"
    /\ args_name_re = <<>>
    /\ args_format = <<>>
    /\ boards = <<>>
    /\ name_re = <<>>
    /\ found = <<>>
    /\ idx = 0
    /\ out = <<>>
    /\ find_calls = 0

\* ZephyrIdeClient.__init__
Construct(b, k) ==
    /\ arg_base_url = b
    /\ base_url = InitBaseUrl(b)
    /\ arg_api_key = k
    /\ api_key = k
    /\ headers = InitHeaders(k)
    /\ call = NoCall
    /\ network = NoNet
    /\ wire = <<>>
    /\ ret = NoRet

InitClient ==
    /\ \E b \in BaseUrls, k \in ApiKeys : Construct(b, k)
    /\ json_exc_is_request_exc \in BOOLEAN
    /\ MainIdle
    /\ ListerIdle

\* one call of a client method: _request with the given arguments; the client
\* is used by one thread, so a call starts when the previous one has returned
DoCall(op, a, method, endpoint, data, net) ==
    LET r == Request(method, endpoint, data, net)
    IN  /\ call' = [op |-> op, args |-> a, method |-> method, endpoint |-> endpoint,
                    data |-> <<data>>]
        /\ network' = net
        /\ wire' = r.wire
        /\ ret' = r.end
        /\ UNCHANGED configVars

\* _request called directly
CallRequest ==
    /\ call = NoCall
    /\ \E m \in Methods, e \in Endpoints, d \in {None, "body"}, net \in NetOutcomes :
        /\ DoCall("_request", <<m, e, d>>, m, e, d, net)
        /\ UNCHANGED <<mainVars, listerVars>>

GetStatus ==
    /\ call = NoCall
    /\ \E net \in NetOutcomes :
        /\ DoCall("get_status", <<>>, "GET", EpStatus, None, net)
        /\ UNCHANGED <<mainVars, listerVars>>

ListProjects ==
    /\ call = NoCall
    /\ \E net \in NetOutcomes :
        /\ DoCall("list_projects", <<>>, "GET", EpProjects, None, net)
        /\ UNCHANGED <<mainVars, listerVars>>

GetWorkspaceConfig ==
    /\ call = NoCall
    /\ \E net \in NetOutcomes :
        /\ DoCall("get_workspace_config", <<>>, "GET", EpConfig, None, net)
        /\ UNCHANGED <<mainVars, listerVars>>

BuildProject ==
    /\ call = NoCall
    /\ \E pn \in OptNames, bn \in OptNames, pr \in BOOLEAN, net \in NetOutcomes :
        /\ DoCall("build_project",
                  [project_name |-> pn, build_name |-> bn, pristine |-> pr],
                  "POST", EpBuild, BuildData(pn, bn, pr), net)
        /\ UNCHANGED <<mainVars, listerVars>>

FlashProject ==
    /\ call = NoCall
    /\ \E pn \in OptNames, bn \in OptNames, net \in NetOutcomes :
        /\ DoCall("flash_project", [project_name |-> pn, build_name |-> bn],
                  "POST", EpFlash, FlashData(pn, bn), net)
        /\ UNCHANGED <<mainVars, listerVars>>

\* the caller has taken the result of the call; the call's frame is gone
CallReturned ==
    /\ call /= NoCall
    /\ call' = NoCall
    /\ network' = NoNet
    /\ wire' = <<>>
    /\ ret' = NoRet
    /\ UNCHANGED configVars
    /\ UNCHANGED <<mainVars, listerVars>>

NextClient ==
    \/ CallRequest
    \/ GetStatus
    \/ ListProjects
    \/ GetWorkspaceConfig
    \/ BuildProject
    \/ FlashProject
    \/ CallReturned

SpecClient == InitClient /\ [][NextClient]_vars

-----------------------------------------------------------------------------
(* main() of api-client.py *)
DefaultBaseUrl ==
    <<"h", "t", "t", "p", ":", "/", "/", "l", "o", "c", "a", "l", "h", "o", "s", "t",
      ":", "8", "0", "8", "0">>

\* api_key = input(...).strip() or None
InputApiKeys == {None, "k"}

\* the name main() finds first in a non-empty project map
FirstProject == "p1"

\* status_code == 200 and response.get("success")
StepOk(end) == end.status = 200 /\ end.payload.success

\* AfterStatus as it would be without the return of line 91
AfterStatus_GoesOn(end) ==
    IF end.kind = "raise" THEN "crashed"
    ELSE IF StepOk(end)
    THEN (IF end.payload.data = "full" THEN "projects" ELSE "crashed")
    ELSE "projects"

\* where main() goes after step 1
AfterStatus(end) ==
    IF end.kind = "raise" THEN "crashed"
    ELSE IF StepOk(end)
    THEN (IF end.payload.data = "full" THEN "projects" ELSE "crashed")
    ELSE "done"

\* where main() goes after step 2
AfterProjects(end) ==
    IF end.kind = "raise" THEN "crashed"
    ELSE IF StepOk(end)
    THEN (IF end.payload.data = "missing" THEN "crashed" ELSE "config")
    ELSE "config"

\* where main() goes after step 3
AfterConfig(end) ==
    IF end.kind = "raise" THEN "crashed"
    ELSE IF StepOk(end)
    THEN (IF end.payload.data = "full" THEN "build" ELSE "crashed")
    ELSE "build"

\* if projects_response.get("success") and projects_response["data"]:
\* "yes", "no", or "crashed" when the payload has no usable "data"
BuildWanted(pr) ==
    IF ~pr.payload.success THEN "no"
    ELSE IF pr.payload.data = "missing" THEN "crashed"
    ELSE IF pr.payload.data = "full" THEN "yes"
    ELSE "no"

\* what main() prints for a step it got through
Report(end) == IF StepOk(end) THEN "ok" ELSE "failed"

InitMain ==
    /\ \E k \in InputApiKeys : Construct(DefaultBaseUrl, k)
    /\ json_exc_is_request_exc \in BOOLEAN
    /\ pc = "status"
    /\ status_response = NoRet
    /\ projects_response = NoRet
    /\ config_response = NoRet
    /\ build_response = NoRet
    /\ reported = [s \in {"status", "projects", "config", "build"} |-> "none"]
    /\ requested = <<>>
    /\ ListerIdle

\* step 1: lines 76-91
MainStatus ==
    /\ pc = "status"
    /\ \E net \in NetOutcomes :
        LET r == Request("GET", EpStatus, None, net)
            next == AfterStatus(r.end)
        IN  /\ DoCall("get_status", <<>>, "GET", EpStatus, None, net)
            /\ requested' = requested \o r.wire
            /\ status_response' = r.end
            /\ pc' = next
            /\ reported' = IF next = "crashed" THEN reported
                           ELSE [reported EXCEPT !["status"] = Report(r.end)]
    /\ UNCHANGED <<projects_response, config_response, build_response, listerVars>>

\* step 2: lines 93-106
MainProjects ==
    /\ pc = "projects"
    /\ \E net \in NetOutcomes :
        LET r == Request("GET", EpProjects, None, net)
            next == AfterProjects(r.end)
        IN  /\ DoCall("list_projects", <<>>, "GET", EpProjects, None, net)
            /\ requested' = requested \o r.wire
            /\ projects_response' = r.end
            /\ pc' = next
            /\ reported' = IF next = "crashed" THEN reported
                           ELSE [reported EXCEPT !["projects"] = Report(r.end)]
    /\ UNCHANGED <<status_response, config_response, build_response, listerVars>>

\* step 3: lines 108-118
MainConfig ==
    /\ pc = "config"
    /\ \E net \in NetOutcomes :
        LET r == Request("GET", EpConfig, None, net)
            next == AfterConfig(r.end)
        IN  /\ DoCall("get_workspace_config", <<>>, "GET", EpConfig, None, net)
            /\ requested' = requested \o r.wire
            /\ config_response' = r.end
            /\ pc' = next
            /\ reported' = IF next = "crashed" THEN reported
                           ELSE [reported EXCEPT !["config"] = Report(r.end)]
    /\ UNCHANGED <<status_response, projects_response, build_response, listerVars>>

\* step 4, the build is wanted: lines 120-132
MainBuild ==
    /\ pc = "build"
    /\ BuildWanted(projects_response) = "yes"
    /\ \E net \in NetOutcomes :
        LET d == BuildData(FirstProject, None, FALSE)
            r == Request("POST", EpBuild, d, net)
        IN  /\ DoCall("build_project",
                      [project_name |-> FirstProject, build_name |-> None,
                       pristine |-> FALSE],
                      "POST", EpBuild, d, net)
            /\ requested' = requested \o r.wire
            /\ build_response' = r.end
            /\ pc' = IF r.end.kind = "raise" THEN "crashed" ELSE "done"
            /\ reported' = IF r.end.kind = "raise" THEN reported
                           ELSE [reported EXCEPT !["build"] = Report(r.end)]
    /\ UNCHANGED <<status_response, projects_response, config_response, listerVars>>

\* step 4, the build is not wanted or the test itself fails: lines 120-121, 132
MainNoBuild ==
    /\ pc = "build"
    /\ BuildWanted(projects_response) /= "yes"
    /\ pc' = IF BuildWanted(projects_response) = "crashed" THEN "crashed" ELSE "done"
    /\ UNCHANGED <<clientVars, status_response, projects_response, config_response,
                   build_response, reported, requested, listerVars>>

NextMain ==
    \/ MainStatus
    \/ MainProjects
    \/ MainConfig
    \/ MainBuild
    \/ MainNoBuild

SpecMain == InitMain /\ [][NextMain]_vars

-----------------------------------------------------------------------------
(* get_boards() of get_board_list_pre_v3_6_0.py *)

\* The regular expressions tried: concatenations of literals and of "^";
\* "(" opens a group that nothing closes.
RegexChars == {"^", "a", "1", "("}
Patterns   == SeqsUpTo(RegexChars, MaxPatLen)

\* Compiles as it would be if a bad pattern were let through
Compiles_Always(pat) == TRUE

\* re.compile(pattern) succeeds
Compiles(pat) == \A j \in 1..Len(pat) : pat[j] /= "("

\* the compiled pattern matches s from position i on (positions from 1);
\* without re.MULTILINE "^" matches only before the first character
RECURSIVE MatchAt(_, _, _)
MatchAt(pat, s, i) ==
    IF pat = <<>> THEN TRUE
    ELSE IF Head(pat) = "^" THEN i = 1 /\ MatchAt(Tail(pat), s, i)
    ELSE i <= Len(s) /\ s[i] = Head(pat) /\ MatchAt(Tail(pat), s, i + 1)

\* name_re.search(s) finds a match
Search(pat, s) == \E i \in 1..(Len(s) + 1) : MatchAt(pat, s, i)

\* Skip as it would be with name_re.match in place of name_re.search
Skip_Match(re, board) == re /= <<>> /\ ~MatchAt(re[1], board.name, 1)

\* if name_re is not None and not name_re.search(board.name): continue
Skip(re, board) == re /= <<>> /\ ~Search(re[1], board.name)

\* Format strings are sequences of literal characters and replacement fields.
Lit(c)   == <<"lit", c>>
Field(f) == <<"field", f>>
Formats ==
    { <<Field("name")>>,
      <<Field("name"), Lit(":"), Field("arch")>>,
      <<Field("dir")>>,
      <<Field("board")>> }

\* str.format(name=..., arch=..., dir=...) raises no KeyError
Formattable(fmt) ==
    \A j \in 1..Len(fmt) : fmt[j][1] = "field" => fmt[j][2] \in {"name", "arch", "dir"}

\* args.format.format(name=board.name, arch=board.arch, dir=board.dir)
RECURSIVE Format(_, _)
Format(fmt, board) ==
    IF fmt = <<>> THEN <<>>
    ELSE (IF Head(fmt)[1] = "lit" THEN <<Head(fmt)[2]>>
          ELSE IF Head(fmt)[2] = "name" THEN board.name
          ELSE IF Head(fmt)[2] = "arch" THEN board.arch
          ELSE board.dir)
         \o Format(Tail(fmt), board)

BoardPool ==
    { [name |-> <<"a", "1">>, arch |-> <<"x">>, dir |-> <<"/", "d", "1">>],
      [name |-> <<"b", "1">>, arch |-> <<"y">>, dir |-> <<"/", "d", "2">>],
      [name |-> <<"b", "a">>, arch |-> <<"x">>, dir |-> <<"/", "d", "3">>] }

ClientIdle ==
    /\ Construct(DefaultBaseUrl, None)
    /\ json_exc_is_request_exc = TRUE

InitLister ==
    /\ lpc = "compile"
    /\ args_name_re \in {<<>>} \cup {<<p>> : p \in Patterns}
    /\ args_format \in Formats
    /\ boards \in SeqsUpTo(BoardPool, MaxBoards)
    /\ name_re = <<>>
    /\ found = <<>>
    /\ idx = 0
    /\ out = <<>>
    /\ find_calls = 0
    /\ ClientIdle
    /\ MainIdle

\* lines 22-25: compile the filter if there is one
Compile ==
    /\ lpc = "compile"
    /\ IF args_name_re = <<>>
       THEN name_re' = <<>> /\ lpc' = "discover"
       ELSE IF Compiles(args_name_re[1])
       THEN name_re' = args_name_re /\ lpc' = "discover"
       ELSE name_re' = name_re /\ lpc' = "re_error"
    /\ UNCHANGED <<args_name_re, args_format, boards, found, idx, out, find_calls>>
    /\ UNCHANGED <<clientVars, mainVars>>

\* lines 26-28: list_boards.find_boards(args)
Discover ==
    /\ lpc = "discover"
    /\ found' = boards
    /\ find_calls' = find_calls + 1
    /\ idx' = 1
    /\ lpc' = "loop"
    /\ UNCHANGED <<args_name_re, args_format, boards, name_re, out>>
    /\ UNCHANGED <<clientVars, mainVars>>

\* lines 28-32: one pass of the for loop
LoopBody ==
    /\ lpc = "loop"
    /\ idx <= Len(found)
    /\ IF Skip(name_re, found[idx])
       THEN /\ idx' = idx + 1
            /\ UNCHANGED <<out, lpc>>
       ELSE IF Formattable(args_format)
       THEN /\ out' = Append(out, Format(args_format, found[idx]))
            /\ idx' = idx + 1
            /\ UNCHANGED lpc
       ELSE /\ lpc' = "key_error"
            /\ UNCHANGED <<out, idx>>
    /\ UNCHANGED <<args_name_re, args_format, boards, name_re, found, find_calls>>
    /\ UNCHANGED <<clientVars, mainVars>>

\* line 28: the list is exhausted
LoopExit ==
    /\ lpc = "loop"
    /\ idx > Len(found)
    /\ lpc' = "done"
    /\ UNCHANGED <<args_name_re, args_format, boards, name_re, found, idx, out,
                   find_calls>>
    /\ UNCHANGED <<clientVars, mainVars>>

NextLister ==
    \/ Compile
    \/ Discover
    \/ LoopBody
    \/ LoopExit

SpecLister == InitLister /\ [][NextLister]_vars

-----------------------------------------------------------------------------
(* Properties *)

InCall == call /= NoCall
Sent   == wire /= <<>>
Returned == ret.kind = "return"
Raised   == ret.kind = "raise"

\* ret is the pair _request makes up for a failure
IsConnectionErrorPair ==
    /\ Returned
    /\ ret.status = 0
    /\ ret.payload.success = FALSE
    /\ ret.payload.error[1] = "Connection error: "

\* C1: a GET or POST call whose transport fails returns the pair
\* ({success: false, error: "Connection error..."}, 0) and raises nothing.
C1_TransportFailureFolded ==
    (InCall /\ call.method \in {"GET", "POST"} /\ network.kind = "transport_failure")
        => (IsConnectionErrorPair /\ Len(wire) = 1)

C1_Witness ==
    /\ InCall /\ call.op = "build_project"
    /\ network.kind = "transport_failure"
    /\ Returned /\ ret.status = 0

\* C2: a response whose body is not JSON makes the call raise the parse error;
\* the status-0 pair is returned only when no response was received.
C2_ParseFailurePropagates ==
    /\ (InCall /\ call.method \in {"GET", "POST"} /\ network.kind = "response_not_json")
          => (Raised /\ ret.exc = "JSONDecodeError")
    /\ (InCall /\ IsConnectionErrorPair) => network.kind = "transport_failure"

\* C3 as stated: every method other than "GET" and "POST" makes the call raise
\* the unsupported-method error with nothing sent.
C3_Original ==
    (InCall /\ call.method \notin {"GET", "POST"})
        => (Raised /\ ret.exc = "ValueError" /\ ~Sent)

\* C3: every method that is neither GET nor POST in any letter case makes the
\* call raise the unsupported-method error, and nothing is sent.
C3_UnsupportedMethodRaises ==
    (InCall /\ call.method \notin {"GET", "POST", "get", "post", "Post"})
        => (Raised /\ ret.exc = "ValueError" /\ ~Sent)

C3_Witness ==
    InCall /\ call.method = "PUT" /\ Raised /\ ret.exc = "ValueError" /\ ~Sent

\* s without the slashes it ends in
C4_Stem(s) ==
    CHOOSE p \in {SubSeq(s, 1, k) : k \in 0..Len(s)} :
        /\ p = <<>> \/ p[Len(p)] /= "/"
        /\ \A i \in (Len(p) + 1)..Len(s) : s[i] = "/"

\* s without the slashes it starts with
C4_Rest(s) ==
    CHOOSE p \in {SubSeq(s, k, Len(s)) : k \in 1..(Len(s) + 1)} :
        /\ p = <<>> \/ p[1] /= "/"
        /\ \A i \in 1..(Len(s) - Len(p)) : s[i] = "/"

C4_Applies ==
    /\ InCall /\ Sent
    /\ arg_base_url /= <<>> /\ arg_base_url[Len(arg_base_url)] = "/"
    /\ call.endpoint /= <<>> /\ call.endpoint[1] = "/"

\* C4 as stated: the URL is the base URL without its trailing slashes, "/api/",
\* and the endpoint without one leading slash.
C4_Original ==
    C4_Applies =>
        wire[1].url = C4_Stem(arg_base_url) \o ApiPrefix \o Tail(call.endpoint)

\* C4: the URL is the base URL without its trailing slashes, "/api/", and the
\* endpoint without all of its leading slashes; no slash precedes "/api/" and
\* none follows it.
C4_UrlComposed ==
    C4_Applies =>
        LET stem == C4_Stem(arg_base_url)
            url  == wire[1].url
            n    == Len(stem) + Len(ApiPrefix)
        IN  /\ url = stem \o ApiPrefix \o C4_Rest(call.endpoint)
            /\ stem /= <<>> => url[Len(stem)] /= "/"
            /\ Len(url) > n => url[n + 1] /= "/"

C4_Witness ==
    /\ C4_Applies
    /\ arg_base_url = <<"h", "/", "/">>
    /\ call.endpoint = <<"/", "/", "s">>
    /\ wire[1].url = <<"h">> \o ApiPrefix \o <<"s">>

C5_Build == InCall /\ call.op = "build_project" /\ Sent
C5_Flash == InCall /\ call.op = "flash_project" /\ Sent

\* key k is in body b exactly when argument a was given, then with a as value
C5_KeyIffGiven(b, k, a) ==
    /\ k \in DOMAIN b <=> a /= None
    /\ k \in DOMAIN b => b[k] = a

\* key k is in body b exactly when argument a was given and is not empty
C5_KeyIffNonEmpty(b, k, a) ==
    /\ k \in DOMAIN b <=> a \notin {None, ""}
    /\ k \in DOMAIN b => b[k] = a

\* C5 as stated: projectName and buildName are in the body exactly when the
\* argument was supplied.
C5_Original ==
    /\ C5_Build =>
          /\ C5_KeyIffGiven(wire[1].body[1], "projectName", call.args.project_name)
          /\ C5_KeyIffGiven(wire[1].body[1], "buildName", call.args.build_name)
    /\ C5_Flash =>
          /\ C5_KeyIffGiven(wire[1].body[1], "projectName", call.args.project_name)
          /\ C5_KeyIffGiven(wire[1].body[1], "buildName", call.args.build_name)

\* C5: projectName and buildName are in the body exactly when the argument was
\* supplied and is not the empty string, with the supplied value; the body of
\* build_project always has pristine; no other key is sent.
C5_BodyKeys ==
    /\ C5_Build =>
          LET b == wire[1].body[1]
              a == call.args
          IN  /\ wire[1].verb = "POST"
              /\ C5_KeyIffNonEmpty(b, "projectName", a.project_name)
              /\ C5_KeyIffNonEmpty(b, "buildName", a.build_name)
              /\ "pristine" \in DOMAIN b /\ b["pristine"] = a.pristine
              /\ DOMAIN b \subseteq {"pristine", "projectName", "buildName"}
              /\ (a.project_name = None /\ a.build_name = None /\ ~a.pristine)
                    => b = [pristine |-> FALSE]
              /\ (a.project_name = "foo" /\ a.build_name = "debug" /\ a.pristine)
                    => b = [pristine |-> TRUE, projectName |-> "foo",
                            buildName |-> "debug"]
    /\ C5_Flash =>
          LET b == wire[1].body[1]
              a == call.args
          IN  /\ wire[1].verb = "POST"
              /\ C5_KeyIffNonEmpty(b, "projectName", a.project_name)
              /\ C5_KeyIffNonEmpty(b, "buildName", a.build_name)
              /\ DOMAIN b \subseteq {"projectName", "buildName"}
              /\ (a.project_name = None /\ a.build_name = None) => DOMAIN b = {}

C5_Witness ==
    /\ C5_Build
    /\ call.args.project_name = "foo" /\ call.args.build_name = None
    /\ DOMAIN wire[1].body[1] = {"pristine", "projectName"}

\* C6 as stated: the request has X-API-Key exactly when an api_key was given.
C6_Original ==
    (InCall /\ Sent) =>
        IF arg_api_key /= None
        THEN "X-API-Key" \in DOMAIN wire[1].headers
             /\ wire[1].headers["X-API-Key"] = arg_api_key
        ELSE "X-API-Key" \notin DOMAIN wire[1].headers

\* C6: every request has X-API-Key with the key given at construction when
\* that key is not empty, and no X-API-Key otherwise; base URL, key and
\* headers stay as construction set them.
C6_HeadersFixed ==
    /\ api_key = arg_api_key
    /\ base_url = C4_Stem(arg_base_url)
    /\ DOMAIN headers = IF arg_api_key \notin {None, ""}
                         THEN {"Content-Type", "X-API-Key"}
                         ELSE {"Content-Type"}
    /\ headers["Content-Type"] = "application/json"
    /\ "X-API-Key" \in DOMAIN headers => headers["X-API-Key"] = arg_api_key
    /\ \A i \in 1..Len(wire) : wire[i].headers = headers

C6_Witness ==
    /\ InCall /\ Sent /\ call.op = "flash_project"
    /\ arg_api_key = "k"
    /\ wire[1].headers["X-API-Key"] = "k"

\* how many characters of pat before position j are literals
C7_LitsBefore(pat, j) == Cardinality({k \in 1..(j - 1) : pat[k] /= "^"})

\* pat occurs in s from position i on
C7_OccursAt(pat, s, i) ==
    \A j \in 1..Len(pat) :
        LET q == i + C7_LitsBefore(pat, j)
        IN  IF pat[j] = "^" THEN q = 1 ELSE q <= Len(s) /\ s[q] = pat[j]

\* the filter lets the record through
C7_Listed(b) ==
    \/ args_name_re = <<>>
    \/ \E i \in 1..(Len(b.name) + 1) : C7_OccursAt(args_name_re[1], b.name, i)

\* the lines for the records of recs that the filter lets through, in order
RECURSIVE C7_Lines(_)
C7_Lines(recs) ==
    IF recs = <<>> THEN <<>>
    ELSE (IF C7_Listed(Head(recs))
          THEN <<Format(args_format, Head(recs))>> ELSE <<>>)
         \o C7_Lines(Tail(recs))

C7_A1 == [name |-> <<"a", "1">>, arch |-> <<"x">>, dir |-> <<"/", "d", "1">>]
C7_B1 == [name |-> <<"b", "1">>, arch |-> <<"y">>, dir |-> <<"/", "d", "2">>]

\* C7: the output is one line per record whose name the filter finds (every
\* record without a filter), in the order of the records, each the rendered
\* format; unmatched records give nothing, and a run without listed records
\* ends normally with no line.
C7_LinesInOrder ==
    /\ lpc = "loop" => out = C7_Lines(SubSeq(boards, 1, idx - 1))
    /\ lpc = "done" => out = C7_Lines(boards)
    /\ lpc = "key_error" => \E i \in 1..Len(boards) : C7_Listed(boards[i])
    /\ (lpc = "done" /\ boards = <<C7_A1, C7_B1>> /\ args_name_re = << <<"^", "a">> >>
          /\ args_format = <<Field("name")>>)
         => out = << <<"a", "1">> >>
    /\ (lpc = "done" /\ boards = <<C7_A1, C7_B1>> /\ args_name_re = <<>>
          /\ args_format = <<Field("name"), Lit(":"), Field("arch")>>)
         => out = << <<"a", "1", ":", "x">>, <<"b", "1", ":", "y">> >>

C7_Witness ==
    /\ lpc = "done"
    /\ Len(boards) = 2
    /\ args_name_re = << <<"a">> >>
    /\ boards[1].name = <<"b", "1">> /\ boards[2].name = <<"b", "a">>
    /\ Len(out) = 1

\* the filter is not a regular expression
C8_Invalid == args_name_re /= <<>> /\ \E j \in 1..Len(args_name_re[1]) : args_name_re[1][j] = "("

\* C8: with a filter that is not a regular expression the run ends in the
\* compile error, find_boards is never invoked, and no line is emitted.
C8_InvalidRegexFatalFirst ==
    C8_Invalid =>
        /\ lpc \in {"compile", "re_error"}
        /\ find_calls = 0
        /\ found = <<>> /\ idx = 0
        /\ out = <<>>

C8_Witness == C8_Invalid /\ lpc = "re_error" /\ boards /= <<>>

\* main() has asked for a build
C9_BuildRequested == \E i \in 1..Len(requested) : requested[i].verb = "POST"

\* C9: main() asks for a build only after a list-projects step with status 200,
\* success true and a non-empty project map; after reporting that step as
\* failed it asks for no build.
C9_BuildOnlyAfterListOk ==
    /\ C9_BuildRequested =>
          /\ projects_response.kind = "return"
          /\ projects_response.status = 200
          /\ projects_response.payload.success
          /\ projects_response.payload.data = "full"
    /\ reported["projects"] = "failed" => ~C9_BuildRequested

C10_Url(e) == DefaultBaseUrl \o <<"/", "a", "p", "i">> \o e
C10_Order ==
    << [verb |-> "GET",  url |-> C10_Url(EpStatus)],
       [verb |-> "GET",  url |-> C10_Url(EpProjects)],
       [verb |-> "GET",  url |-> C10_Url(EpConfig)],
       [verb |-> "POST", url |-> C10_Url(EpBuild)] >>

\* the step whose response is r came back without status 200 and success true
C10_Failed(r) == r.kind = "return" /\ ~(r.status = 200 /\ r.payload.success)

\* C10: main() makes its requests at most once each, in the order status,
\* projects, workspace config, build; after a failed status step it makes no
\* further request and ends; a failed projects step is followed by the
\* workspace-config request, and a failed workspace-config step by the build
\* test and, when projects were found, the build request.
C10_OrderAndAbort ==
    /\ Len(requested) <= 4
    /\ \A i \in 1..Len(requested) :
          /\ requested[i].verb = C10_Order[i].verb
          /\ requested[i].url = C10_Order[i].url
    /\ C10_Failed(status_response) => (pc = "done" /\ Len(requested) = 1)
    /\ C10_Failed(projects_response) => (pc = "config" \/ Len(requested) >= 3)
    /\ (C10_Failed(config_response) /\ projects_response.payload.success
          /\ projects_response.payload.data = "full")
         => (pc = "build" \/ Len(requested) = 4)

C10_Witness ==
    /\ pc = "done"
    /\ C10_Failed(status_response)
    /\ status_response.status = 401
    /\ Len(requested) = 1

====
